---- MODULE Spec2Model ----
(***************************************************************************)
(* TodoCli (src/src/main.rs): an interactive task tracker.  The model      *)
(* holds the task registry (TasksManager.tasks), the files the registry    *)
(* saves to and loads from, the console adapter's command loop and what    *)
(* the last command printed.                                               *)
(***************************************************************************)
EXTENDS Integers, Sequences, FiniteSets, TLC

\* ------------------------------------------------------------------ bounds

\* The registry is a Vec without a capacity; the add command is capped.
MaxTasks == 2

\* ------------------------------------------------------------- data model

\* enum Priority { Low, Medium, High }: the variants' discriminants.
Low == 0
Medium == 1
High == 2

Priority == {Low, Medium, High}

\* Priority::to_string
to_string(p) ==
    CASE p = Low -> "Low"
      [] p = Medium -> "Medium"
      [] p = High -> "High"

\* Readings of Local::now(): instants on the UTC time line.
Instants == {1, 2}

\* The offset of the Local time zone at an instant (a zone whose offset
\* changes between the two instants, as with daylight saving).
LocalOffset(utc) == IF utc < 2 THEN 3 ELSE 4

\* DateTime<Local>: an instant and the local offset in force at it.
DateTimeLocal(utc) == [utc |-> utc, off |-> LocalOffset(utc)]

\* Task::new
TaskNew(name, description, priority, now) ==
    [name |-> name, description |-> description, priority |-> priority,
     add_time |-> DateTimeLocal(now)]

\* ---------------------------------------------------------------- console

\* Lines as the user types them, before ConsoleManager::input trims them.
NameLines == {"a\n", " b \n"}
PriorityLines == {"low\n", "HIGH\n", "Medium\n", "urgent\n", "\n"}

\* str::trim on the lines the model types.
Trim(line) ==
    CASE line = "a\n" -> "a"
      [] line = " b \n" -> "b"
      [] line = "x\n" -> "x"
      [] line = "y\n" -> "y"
      [] line = "low\n" -> "low"
      [] line = "HIGH\n" -> "HIGH"
      [] line = "Medium\n" -> "Medium"
      [] line = "urgent\n" -> "urgent"
      [] line = "\n" -> ""
      [] line = "new.json\n" -> "new.json"
      [] line = "old.json\n" -> "old.json"
      [] line = " bad.json\n" -> "bad.json"
      [] line = "locked.json\n" -> "locked.json"
      [] line = "nodir/t.json\n" -> "nodir/t.json"
      [] line = "9\n" -> "9"
      [] line = "add\n" -> "add"
      [] OTHER -> line

\* str::to_lowercase on the priority strings the model types.
to_lowercase(s) ==
    CASE s = "HIGH" -> "high"
      [] s = "Medium" -> "medium"
      [] OTHER -> s

\* The outcome of one ConsoleManager::input call: Ok(trimmed line) or Err.
InputOk(line) == [ok |-> TRUE, line |-> Trim(line)]
InputErr == [ok |-> FALSE, line |-> ""]

\* ConsoleManager::input
input(read) == IF read = "ioerror" THEN InputErr ELSE InputOk(read)

\* The priority match without to_lowercase: only the lower-case words match.
ParsePriorityInputExact(s) ==
    CASE s = "low" -> Low
      [] s = "medium" -> Medium
      [] s = "high" -> High
      [] OTHER -> Low

\* The priority match of Task::new_from_console.
ParsePriorityInput(s) ==
    CASE to_lowercase(s) = "low" -> Low
      [] to_lowercase(s) = "medium" -> Medium
      [] to_lowercase(s) = "high" -> High
      [] OTHER -> Low

\* Whether the match falls to its default arm and prints the warning.
PriorityInputValid(s) == to_lowercase(s) \in {"low", "medium", "high"}

NoTask == [name |-> "", description |-> "", priority |-> Low,
           add_time |-> [utc |-> 0, off |-> 0]]

\* Task::new_from_console on three reads: each .unwrap() panics on Err.
new_from_console(reads, now) ==
    LET n == input(reads[1])
        d == input(reads[2])
        p == input(reads[3])
    IN  IF ~n.ok \/ ~d.ok \/ ~p.ok
        THEN [panic |-> TRUE, task |-> NoTask, warn |-> FALSE]
        ELSE [panic |-> FALSE,
              task |-> TaskNew(n.line, d.line, ParsePriorityInput(p.line), now),
              warn |-> ~PriorityInputValid(p.line)]

\* The forms the user fills in at the three prompts of new_from_console
\* ("ioerror" is a read that fails), and the readings of the clock, in a
\* session that works on the registry in memory.
RegistryForms ==
    {<<"a\n", "x\n", "low\n">>, <<"a\n", "y\n", "HIGH\n">>,
     <<" b \n", "x\n", "Medium\n">>, <<" b \n", "y\n", "urgent\n">>,
     <<"a\n", "x\n", "\n">>,
     <<"ioerror", "x\n", "low\n">>, <<"a\n", "ioerror", "low\n">>,
     <<" b \n", "y\n", "ioerror">>}

RegistryInstants == Instants

\* The same in a session that also saves files: fewer forms, one reading.
SessionForms ==
    {<<"a\n", "x\n", "low\n">>, <<"a\n", "y\n", "HIGH\n">>,
     <<" b \n", "x\n", "Medium\n">>, <<"a\n", "x\n", "urgent\n">>,
     <<"a\n", "ioerror", "low\n">>}

SessionInstants == {1}

NameReads == NameLines \cup {"ioerror"}

FileReads == {"new.json\n", "old.json\n", " bad.json\n", "locked.json\n",
              "nodir/t.json\n", "ioerror"}

UnknownCommandLines == {"9\n", "\n"}

\* ------------------------------------------------------- registry (memory)

\* Iterator::position from index i on; 0 is None, i is Some(i - 1).
RECURSIVE position(_, _, _)
position(ts, name, i) ==
    IF i > Len(ts) THEN 0
    ELSE IF ts[i].name = name THEN i
    ELSE position(ts, name, i + 1)

\* A lookup that returns the last match instead of the first.
find_task_last(ts, name) ==
    IF \E i \in 1..Len(ts) : ts[i].name = name
    THEN CHOOSE i \in 1..Len(ts) :
             /\ ts[i].name = name
             /\ \A j \in (i + 1)..Len(ts) : ts[j].name # name
    ELSE 0

\* TasksManager::find_task
find_task(ts, name) == position(ts, name, 1)

\* Vec::remove(index) that also drops the element after it.
VecRemoveTwo(ts, i) == SubSeq(ts, 1, i - 1) \o SubSeq(ts, i + 2, Len(ts))

\* Vec::remove(index)
VecRemove(ts, i) == SubSeq(ts, 1, i - 1) \o SubSeq(ts, i + 1, Len(ts))

\* Vec::push that puts the task in front.
add_task_front(ts, task) == <<task>> \o ts

\* TasksManager::add_task
add_task(ts, task) == Append(ts, task)

\* The messages are kept as the pieces format! joins.
MsgRemoved(name) == <<"Task \"", name, "\" removed successfully">>
MsgUpdated(name) == <<"Task \"", name, "\" updated successfully">>
MsgNoTask(name) == <<"Task with name \"", name, "\" doesn't exist">>

\* remove_task that removes nothing when the name is missing but says Ok.
remove_task_lenient(ts, name) ==
    LET index == find_task(ts, name)
    IN  IF index # 0
        THEN [tasks |-> VecRemove(ts, index), ok |-> TRUE, msg |-> MsgRemoved(name)]
        ELSE [tasks |-> SubSeq(ts, 2, Len(ts)), ok |-> FALSE, msg |-> MsgNoTask(name)]

\* TasksManager::remove_task
remove_task(ts, name) ==
    LET index == find_task(ts, name)
    IN  IF index # 0
        THEN [tasks |-> VecRemove(ts, index), ok |-> TRUE, msg |-> MsgRemoved(name)]
        ELSE [tasks |-> ts, ok |-> FALSE, msg |-> MsgNoTask(name)]

\* The three assignments of edit_task, with the slot's add_time overwritten too.
OverwriteAll(task, updated) == updated

\* The three assignments of edit_task on the slot found.
Overwrite(task, updated) ==
    [task EXCEPT !.name = updated.name,
                 !.description = updated.description,
                 !.priority = updated.priority]

\* edit_task that pushes the replacement when the name is missing.
edit_task_upsert(ts, name, updated) ==
    LET index == find_task(ts, name)
    IN  IF index # 0
        THEN [tasks |-> [ts EXCEPT ![index] = Overwrite(ts[index], updated)],
              ok |-> TRUE, msg |-> MsgUpdated(name)]
        ELSE [tasks |-> Append(ts, updated), ok |-> FALSE, msg |-> MsgNoTask(name)]

\* TasksManager::edit_task
edit_task(ts, name, updated) ==
    LET index == find_task(ts, name)
    IN  IF index # 0
        THEN IF index <= Len(ts)
             THEN [tasks |-> [ts EXCEPT ![index] = Overwrite(ts[index], updated)],
                   ok |-> TRUE, msg |-> MsgUpdated(name)]
             ELSE [tasks |-> ts, ok |-> FALSE, msg |-> <<"Error borrowing task">>]
        ELSE [tasks |-> ts, ok |-> FALSE, msg |-> MsgNoTask(name)]

\* The time of day print_task formats: the local wall clock of the instant.
FormatTime(t) == t.utc + t.off

\* Task::print_task
print_task(task) ==
    <<task.name, to_string(task.priority), FormatTime(task.add_time), task.description>>

\* TasksManager::print_tasks
print_tasks(ts) == [i \in 1..Len(ts) |-> print_task(ts[i])]

\* ---------------------------------------------------------- persisted files

\* The serde name of a Priority variant (derive(Serialize, Deserialize)).
VariantName(p) ==
    CASE p = Low -> "Low"
      [] p = Medium -> "Medium"
      [] p = High -> "High"

\* A serializer that writes the UTC clock beside the local offset.
SerializeTimeUtc(t) == [local |-> t.utc, off |-> t.off]

\* chrono's Serialize for DateTime<Local>: the local wall clock and the offset.
SerializeTime(t) == [local |-> t.utc + t.off, off |-> t.off]

\* derive(Serialize) for Task: one JSON object.
SerializeTask(task) ==
    [name |-> task.name, description |-> task.description,
     priority |-> VariantName(task.priority),
     add_time |-> SerializeTime(task.add_time)]

\* serde_json::to_writer(&file, &self.tasks): the JSON array of the whole Vec.
to_writer(ts) == [i \in 1..Len(ts) |-> SerializeTask(ts[i])]

\* A deserializer that reads the wall clock as if it were UTC.
DeserializeTimeNaive(j) == DateTimeLocal(j.local)

\* chrono's Deserialize for DateTime<Local>: the instant the text names,
\* converted to the Local zone.
DeserializeTime(j) == DateTimeLocal(j.local - j.off)

\* derive(Deserialize) for Task: Err on an unknown priority variant.
DeserializeTask(j) ==
    IF j.priority \notin {"Low", "Medium", "High"}
    THEN [ok |-> FALSE, task |-> NoTask]
    ELSE [ok |-> TRUE,
          task |-> [name |-> j.name, description |-> j.description,
                    priority |-> CHOOSE p \in Priority : VariantName(p) = j.priority,
                    add_time |-> DeserializeTime(j.add_time)]]

\* A sequence visitor that stops at the first element that fails and keeps
\* what it has read.
RECURSIVE visit_seq_prefix(_, _, _)
visit_seq_prefix(elems, i, acc) ==
    IF i > Len(elems) THEN [ok |-> TRUE, data |-> acc]
    ELSE LET r == DeserializeTask(elems[i])
         IN  IF r.ok THEN visit_seq_prefix(elems, i + 1, Append(acc, r.task))
             ELSE [ok |-> TRUE, data |-> acc]

\* The sequence visitor of Vec<Task>: elements are collected into a Vec of its
\* own, and the first element that fails ends the parse with Err.
RECURSIVE visit_seq(_, _, _)
visit_seq(elems, i, acc) ==
    IF i > Len(elems) THEN [ok |-> TRUE, data |-> acc]
    ELSE LET r == DeserializeTask(elems[i])
         IN  IF r.ok THEN visit_seq(elems, i + 1, Append(acc, r.task))
             ELSE [ok |-> FALSE, data |-> acc]

\* serde_json::from_reader on a file's content: a document cut short (no
\* closing bracket) is an EOF error; readOk is whether the reads succeed.
from_reader(content, readOk) ==
    IF ~readOk \/ ~content.complete
    THEN [ok |-> FALSE, data |-> <<>>]
    ELSE visit_seq(content.elems, 1, <<>>)

\* A path of the file system: whether a file is there, whether File::create and
\* File::open can succeed on it, and the document it holds.
NoContent == [complete |-> FALSE, elems |-> <<>>]
Absent == [exists |-> FALSE, creatable |-> TRUE, openable |-> TRUE,
           content |-> NoContent]

\* Path::exists
PathExists(files, filename) == files[filename].exists

MsgAlreadyExists == <<"File \"{filename}\" already exists">>
MsgCreateFailed == <<"File already exist">>
MsgStored == <<"Data stored successfully">>
MsgSaveError == <<"Error saving data ", "io error">>
MsgDoesNotExist == <<"File \"{filename}\" doesn't exist">>
MsgOpenFailed == <<"File doesn't exist">>
MsgReadError == <<"Error reading file ", "serde error">>
MsgRead == <<"Data read successfully">>

\* File::create on a path: the file now exists and is empty.
Created(file) == [file EXCEPT !.exists = TRUE, !.content = NoContent]

\* store_to_file without the Path::exists test: File::create truncates.
store_to_file_overwrite(ts, files, filename, written) ==
    IF ~files[filename].creatable
    THEN [fs |-> files, ok |-> FALSE, msg |-> MsgCreateFailed]
    ELSE [fs |-> [files EXCEPT ![filename] =
                    [Created(@) EXCEPT !.content =
                       [complete |-> TRUE, elems |-> to_writer(ts)]]],
          ok |-> TRUE, msg |-> MsgStored]

\* TasksManager::store_to_file.  written is how many elements reach the file
\* before a write fails; Len(ts) + 1 is the write that completes.
store_to_file(ts, files, filename, written) ==
    IF ~PathExists(files, filename)
    THEN IF ~files[filename].creatable
         THEN [fs |-> files, ok |-> FALSE, msg |-> MsgCreateFailed]
         ELSE IF written > Len(ts)
              THEN [fs |-> [files EXCEPT ![filename] =
                              [Created(@) EXCEPT !.content =
                                 [complete |-> TRUE, elems |-> to_writer(ts)]]],
                    ok |-> TRUE, msg |-> MsgStored]
              ELSE [fs |-> [files EXCEPT ![filename] =
                              [Created(@) EXCEPT !.content =
                                 [complete |-> FALSE,
                                  elems |-> SubSeq(to_writer(ts), 1, written)]]],
                    ok |-> FALSE, msg |-> MsgSaveError]
    ELSE [fs |-> files, ok |-> FALSE, msg |-> MsgAlreadyExists]

\* read_from_file that empties the collection before it looks for the file.
read_from_file_clearing(ts, files, filename, readOk) ==
    IF PathExists(files, filename) /\ files[filename].openable
    THEN LET r == from_reader(files[filename].content, readOk)
         IN  IF r.ok
             THEN [tasks |-> r.data, ok |-> TRUE, msg |-> MsgRead]
             ELSE [tasks |-> ts, ok |-> FALSE, msg |-> MsgReadError]
    ELSE [tasks |-> <<>>, ok |-> FALSE,
          msg |-> IF PathExists(files, filename) THEN MsgOpenFailed
                  ELSE MsgDoesNotExist]

\* read_from_file that extends the collection with the document's tasks.
read_from_file_merging(ts, files, filename, readOk) ==
    IF PathExists(files, filename)
    THEN IF ~files[filename].openable
         THEN [tasks |-> ts, ok |-> FALSE, msg |-> MsgOpenFailed]
         ELSE LET r == from_reader(files[filename].content, readOk)
              IN  IF r.ok
                  THEN [tasks |-> ts \o r.data, ok |-> TRUE, msg |-> MsgRead]
                  ELSE [tasks |-> ts, ok |-> FALSE, msg |-> MsgReadError]
    ELSE [tasks |-> ts, ok |-> FALSE, msg |-> MsgDoesNotExist]

\* TasksManager::read_from_file.  self.tasks is assigned only when the whole
\* document parsed: the Err arm returns before the assignment.
read_from_file(ts, files, filename, readOk) ==
    IF PathExists(files, filename)
    THEN IF ~files[filename].openable
         THEN [tasks |-> ts, ok |-> FALSE, msg |-> MsgOpenFailed]
         ELSE LET r == from_reader(files[filename].content, readOk)
              IN  IF r.ok
                  THEN [tasks |-> r.data, ok |-> TRUE, msg |-> MsgRead]
                  ELSE [tasks |-> ts, ok |-> FALSE, msg |-> MsgReadError]
    ELSE [tasks |-> ts, ok |-> FALSE, msg |-> MsgDoesNotExist]

\* ------------------------------------------------------------------- state

VARIABLES
    tasks,  \* TasksManager.tasks
    fs,     \* the files the program can name: path -> file
    pc,     \* "running" in main's loop, "panicked" once an unwrap has panicked
    last,   \* the command process_command ran last and the registry call it made
    out,    \* what that command printed
    saved   \* history: path -> the collection a successful store_to_file wrote

vars == <<tasks, fs, pc, last, out, saved>>

Paths == {"new.json", "old.json", "bad.json", "locked.json", "nodir/t.json"}

\* A document another run saved (its first task in a zone of offset 0).
OldDocument ==
    <<[name |-> "a", description |-> "y", priority |-> "High",
       add_time |-> [local |-> 1, off |-> 0]],
      [name |-> "b", description |-> "x", priority |-> "Medium",
       add_time |-> [local |-> 4, off |-> 3]]>>

\* A document whose first element is a task and whose second is not.
BadDocument ==
    <<[name |-> "a", description |-> "x", priority |-> "Low",
       add_time |-> [local |-> 4, off |-> 3]],
      [name |-> "b", description |-> "x", priority |-> "Urgent",
       add_time |-> [local |-> 4, off |-> 3]]>>

InitialFiles ==
    [p \in Paths |->
        CASE p = "new.json" -> Absent
          [] p = "nodir/t.json" -> [Absent EXCEPT !.creatable = FALSE]
          [] p = "old.json" ->
                [exists |-> TRUE, creatable |-> TRUE, openable |-> TRUE,
                 content |-> [complete |-> TRUE, elems |-> OldDocument]]
          [] p = "bad.json" ->
                [exists |-> TRUE, creatable |-> TRUE, openable |-> TRUE,
                 content |-> [complete |-> TRUE, elems |-> BadDocument]]
          [] p = "locked.json" ->
                [exists |-> TRUE, creatable |-> FALSE, openable |-> FALSE,
                 content |-> [complete |-> TRUE, elems |-> OldDocument]]]

\* What last holds: the command code, the registry operation it reached
\* ("none" when it returned or panicked before the call), the name or file
\* name given, the task built from the console, and the operation's outcome.
Last(cmd, op, arg, task, ok) ==
    [cmd |-> cmd, op |-> op, arg |-> arg, task |-> task, ok |-> ok]

MsgInputError == <<"Error geting user input ", "io error">>
MsgWarnPriority == <<"Not valid input, setting to low">>
MsgUnknown == <<"I don't understand this command">>

\* What saved holds for a path: whether a store_to_file to it has succeeded,
\* and the collection as it was at that call.
NotSaved == [set |-> FALSE, tasks |-> <<>>]
SavedAs(ts) == [set |-> TRUE, tasks |-> ts]

\* ConsoleManager::new and main before the loop.
Init ==
    /\ tasks = <<>>
    /\ fs = InitialFiles
    /\ pc = "running"
    /\ last = Last("", "none", "", NoTask, TRUE)
    /\ out = <<>>
    /\ saved = [p \in Paths |-> NotSaved]

\* --------------------------------------------------------------- commands

\* "1": add_task(Task::new_from_console()).
CmdAdd(forms, instants) ==
    /\ pc = "running"
    /\ \E reads \in forms, now \in instants :
         LET c == new_from_console(reads, now)
         IN  IF c.panic
             THEN /\ pc' = "panicked"
                  /\ last' = Last("1", "none", "", NoTask, FALSE)
                  /\ out' = <<>>
                  /\ UNCHANGED <<tasks, fs, saved>>
             ELSE /\ Len(tasks) < MaxTasks
                  /\ tasks' = add_task(tasks, c.task)
                  /\ last' = Last("1", "add_task", c.task.name, c.task, TRUE)
                  /\ out' = IF c.warn THEN MsgWarnPriority ELSE <<>>
                  /\ UNCHANGED <<fs, pc, saved>>

\* "2": find_task and print_task of the task found.
CmdFind ==
    /\ pc = "running"
    /\ \E read \in NameReads :
         LET name == input(read)
         IN  IF ~name.ok
             THEN /\ last' = Last("2", "none", "", NoTask, FALSE)
                  /\ out' = MsgInputError
             ELSE LET index == find_task(tasks, name.line)
                  IN  /\ last' = Last("2", "find_task", name.line, NoTask, index # 0)
                      /\ out' = IF index # 0 THEN print_task(tasks[index])
                                ELSE MsgNoTask(name.line)
    /\ UNCHANGED <<tasks, fs, pc, saved>>

\* "3": edit_task(&name, Task::new_from_console()).
CmdEdit(forms, instants) ==
    /\ pc = "running"
    /\ \E read \in NameReads :
         LET name == input(read)
         IN  IF ~name.ok
             THEN /\ last' = Last("3", "none", "", NoTask, FALSE)
                  /\ out' = MsgInputError
                  /\ UNCHANGED <<tasks, pc>>
             ELSE \E reads \in forms, now \in instants :
                    LET c == new_from_console(reads, now)
                        r == edit_task(tasks, name.line, c.task)
                    IN  IF c.panic
                        THEN /\ pc' = "panicked"
                             /\ last' = Last("3", "none", name.line, NoTask, FALSE)
                             /\ out' = <<>>
                             /\ UNCHANGED tasks
                        ELSE /\ tasks' = r.tasks
                             /\ last' = Last("3", "edit_task", name.line, c.task, r.ok)
                             /\ out' = (IF c.warn THEN MsgWarnPriority ELSE <<>>) \o r.msg
                             /\ UNCHANGED pc
    /\ UNCHANGED <<fs, saved>>

\* "4": remove_task(&name).
CmdRemove ==
    /\ pc = "running"
    /\ \E read \in NameReads :
         LET name == input(read)
             r == remove_task(tasks, name.line)
         IN  IF ~name.ok
             THEN /\ last' = Last("4", "none", "", NoTask, FALSE)
                  /\ out' = MsgInputError
                  /\ UNCHANGED tasks
             ELSE /\ tasks' = r.tasks
                  /\ last' = Last("4", "remove_task", name.line, NoTask, r.ok)
                  /\ out' = r.msg
    /\ UNCHANGED <<fs, pc, saved>>

\* A print command that drains the Vec while it prints it.
CmdPrintDraining ==
    /\ pc = "running"
    /\ last' = Last("5", "print_tasks", "", NoTask, TRUE)
    /\ out' = print_tasks(tasks)
    /\ tasks' = <<>>
    /\ UNCHANGED <<fs, pc, saved>>

\* "5": print_tasks.
CmdPrint ==
    /\ pc = "running"
    /\ last' = Last("5", "print_tasks", "", NoTask, TRUE)
    /\ out' = print_tasks(tasks)
    /\ UNCHANGED <<tasks, fs, pc, saved>>

\* The outcomes to_writer can have when store_to_file reaches it: the number
\* of elements written before a write fails, or Len(ts) + 1 for all of it.
WriteOutcomes(ts, files, filename) ==
    IF ~PathExists(files, filename) /\ files[filename].creatable
    THEN 0..(Len(ts) + 1)
    ELSE {0}

\* "6": store_to_file(filename).
CmdStore ==
    /\ pc = "running"
    /\ \E read \in FileReads :
         LET filename == input(read)
         IN  IF ~filename.ok
             THEN /\ last' = Last("6", "none", "", NoTask, FALSE)
                  /\ out' = MsgInputError
                  /\ UNCHANGED <<fs, saved>>
             ELSE \E written \in WriteOutcomes(tasks, fs, filename.line) :
                    LET r == store_to_file(tasks, fs, filename.line, written)
                    IN  /\ fs' = r.fs
                        /\ last' = Last("6", "store_to_file", filename.line, NoTask, r.ok)
                        /\ out' = r.msg
                        /\ saved' = IF r.ok
                                    THEN [saved EXCEPT ![filename.line] = SavedAs(tasks)]
                                    ELSE saved
    /\ UNCHANGED <<tasks, pc>>

\* The outcomes the reads of from_reader can have when read_from_file
\* reaches it.
ReadOutcomes(files, filename) ==
    IF PathExists(files, filename) /\ files[filename].openable
    THEN BOOLEAN
    ELSE {TRUE}

\* "7": read_from_file(filename).
CmdRead ==
    /\ pc = "running"
    /\ \E read \in FileReads :
         LET filename == input(read)
         IN  IF ~filename.ok
             THEN /\ last' = Last("7", "none", "", NoTask, FALSE)
                  /\ out' = MsgInputError
                  /\ UNCHANGED tasks
             ELSE \E readOk \in ReadOutcomes(fs, filename.line) :
                    LET r == read_from_file(tasks, fs, filename.line, readOk)
                    IN  /\ tasks' = r.tasks
                        /\ last' = Last("7", "read_from_file", filename.line, NoTask, r.ok)
                        /\ out' = r.msg
    /\ UNCHANGED <<fs, pc, saved>>

\* Any other line: the default arm.
CmdUnknown ==
    /\ pc = "running"
    /\ \E line \in UnknownCommandLines :
         last' = Last(input(line).line, "none", "", NoTask, TRUE)
    /\ out' = MsgUnknown
    /\ UNCHANGED <<tasks, fs, pc, saved>>

\* The read of the command line itself fails.
CmdInputError ==
    /\ pc = "running"
    /\ last' = Last("", "none", "", NoTask, FALSE)
    /\ out' = MsgInputError
    /\ UNCHANGED <<tasks, fs, pc, saved>>

\* ConsoleManager::process_command, once per turn of main's loop, in a
\* session that saves and loads files.
Next ==
    \/ CmdAdd(SessionForms, SessionInstants)
    \/ CmdFind
    \/ CmdEdit(SessionForms, SessionInstants)
    \/ CmdRemove
    \/ CmdPrint
    \/ CmdStore
    \/ CmdRead
    \/ CmdUnknown
    \/ CmdInputError

Spec == Init /\ [][Next]_vars

\* The same loop in a session that never saves: the registry in memory, with
\* whatever the files already there load into it.
NextRegistry ==
    \/ CmdAdd(RegistryForms, RegistryInstants)
    \/ CmdFind
    \/ CmdEdit(RegistryForms, RegistryInstants)
    \/ CmdRemove
    \/ CmdPrint
    \/ CmdRead
    \/ CmdUnknown
    \/ CmdInputError

SpecRegistry == Init /\ [][NextRegistry]_vars

\* ------------------------------------------------------------- properties

\* The names looked up: the two the console types and one no task ever has.
LookupNames == {"a", "b", "c"}

HasName(ts, name) == \E i \in 1..Len(ts) : ts[i].name = name

\* The lowest index whose task has the name.
FirstIndex(ts, name) ==
    CHOOSE i \in 1..Len(ts) :
        /\ ts[i].name = name
        /\ \A j \in 1..(i - 1) : ts[j].name # name

\* Whether a message holds the name among its pieces.
Contains(msg, name) == \E k \in 1..Len(msg) : msg[k] = name

\* C1: in every reachable collection and for every name, find_task gives the
\* lowest index whose task has exactly that name, and None exactly when no
\* task has it; the find command prints that first task, never a later
\* duplicate.
C1_FindFirstMatch ==
    /\ \A name \in LookupNames :
         LET r == find_task(tasks, name)
         IN  /\ (r = 0) <=> ~HasName(tasks, name)
             /\ r # 0 =>
                  /\ r \in 1..Len(tasks)
                  /\ tasks[r].name = name
                  /\ \A j \in 1..(r - 1) : tasks[j].name # name
    /\ last.op = "find_task" =>
         /\ last.ok <=> HasName(tasks, last.arg)
         /\ last.ok => out = print_task(tasks[FirstIndex(tasks, last.arg)])
         /\ ~last.ok => out = MsgNoTask(last.arg)

\* The find command found a name that two different tasks carry.
C1_Witness ==
    /\ last.op = "find_task"
    /\ last.ok
    /\ Len(tasks) = 2
    /\ tasks[1].name = last.arg
    /\ tasks[2].name = last.arg
    /\ tasks[1] # tasks[2]
    /\ out = print_task(tasks[1])

C3_EditFirstMatch ==
    [][(last'.op = "edit_task" /\ HasName(tasks, last'.arg)) =>
         LET i == FirstIndex(tasks, last'.arg)
         IN  /\ last'.ok
             /\ Len(tasks') = Len(tasks)
             /\ tasks'[i].name = last'.task.name
             /\ tasks'[i].description = last'.task.description
             /\ tasks'[i].priority = last'.task.priority
             /\ tasks'[i].add_time = tasks[i].add_time
             /\ \A j \in 1..Len(tasks) : j # i => tasks'[j] = tasks[j]]_vars

\* An edit succeeded on the first of two tasks of the name: the slot has the
\* replacement's fields and a creation time that is not the replacement's,
\* and the later task of that name is still there.
C3_Witness ==
    /\ last.op = "edit_task"
    /\ last.ok
    /\ Len(tasks) = 2
    /\ tasks[1].name = last.task.name
    /\ tasks[1].description = last.task.description
    /\ tasks[1].priority = last.task.priority
    /\ tasks[1].add_time # last.task.add_time
    /\ tasks[2].name = last.arg
    /\ tasks[1].name # last.arg

\* C4: remove_task on a name no task has (also on an empty collection)
\* reports a failure whose message holds the name, and leaves the collection
\* as it was.
C4_RemoveMissing ==
    [][(last'.op = "remove_task" /\ ~HasName(tasks, last'.arg)) =>
         /\ ~last'.ok
         /\ Contains(out', last'.arg)
         /\ tasks' = tasks]_vars

\* A remove failed on a collection that holds tasks.
C4_Witness ==
    /\ last.op = "remove_task"
    /\ ~last.ok
    /\ Contains(out, last.arg)
    /\ tasks # <<>>

\* C5: edit_task on a name no task has reports failure and leaves the
\* collection as it was; the replacement is not added.
C5_EditMissing ==
    [][(last'.op = "edit_task" /\ ~HasName(tasks, last'.arg)) =>
         /\ ~last'.ok
         /\ out' \in {MsgNoTask(last'.arg), MsgWarnPriority \o MsgNoTask(last'.arg)}
         /\ tasks' = tasks]_vars

\* An edit failed on a collection that holds tasks, none of them the
\* replacement.
C5_Witness ==
    /\ last.op = "edit_task"
    /\ ~last.ok
    /\ tasks # <<>>
    /\ \A i \in 1..Len(tasks) : tasks[i] # last.task

\* C6: add_task always succeeds, checks no uniqueness, and puts the task at
\* the end: the collection after it is the collection before it with the task
\* appended, and print_tasks lists it last after the same earlier lines.
C6_AddAppends ==
    [][last'.op = "add_task" =>
         /\ last'.ok
         /\ Len(tasks') = Len(tasks) + 1
         /\ tasks' = Append(tasks, last'.task)
         /\ print_tasks(tasks') = Append(print_tasks(tasks), print_task(last'.task))]_vars

\* An add put a task after an earlier task of the same name.
C6_Witness ==
    /\ last.op = "add_task"
    /\ Len(tasks) = 2
    /\ tasks[2] = last.task
    /\ tasks[1].name = tasks[2].name
    /\ tasks[1].description # tasks[2].description

\* Whether a document is no task sequence: cut short, or with an element
\* whose priority is no variant of Priority.
Malformed(content) ==
    \/ ~content.complete
    \/ \E i \in 1..Len(content.elems) :
         content.elems[i].priority \notin {"Low", "Medium", "High"}

\* C7: round trip: when store_to_file has succeeded on a path and the next
\* command is a read_from_file of that path that succeeds, the collection
\* after the load equals the collection saved: same length, same order, same
\* name, description, priority and add_time in every position.
C7_RoundTrip ==
    [][(/\ last.op = "store_to_file"
        /\ last.ok
        /\ last'.op = "read_from_file"
        /\ last'.arg = last.arg
        /\ last'.ok) =>
         /\ Len(tasks') = Len(tasks)
         /\ \A i \in 1..Len(tasks) :
              /\ tasks'[i].name = tasks[i].name
              /\ tasks'[i].description = tasks[i].description
              /\ tasks'[i].priority = tasks[i].priority
              /\ tasks'[i].add_time = tasks[i].add_time]_vars

\* A load of the file this run saved, with two tasks of one name in it.
C7_Witness ==
    /\ last.op = "read_from_file"
    /\ last.ok
    /\ last.arg = "new.json"
    /\ Len(tasks) = 2
    /\ tasks[1].name = tasks[2].name
    /\ tasks[1] # tasks[2]

\* C8: store_to_file on a path that exists fails with the already-exists
\* message and writes nothing; and no step of the program changes a file
\* that is there.
C8_NeverOverwrites ==
    [][/\ \A p \in Paths : fs[p].exists => fs'[p] = fs[p]
       /\ (last'.op = "store_to_file" /\ fs[last'.arg].exists) =>
            /\ ~last'.ok
            /\ out' = MsgAlreadyExists
            /\ fs' = fs]_vars

\* A save was refused on the file this run saved earlier, while the
\* collection is no longer the one in the file.
C8_Witness ==
    /\ last.op = "store_to_file"
    /\ last.arg = "new.json"
    /\ ~last.ok
    /\ out = MsgAlreadyExists
    /\ fs["new.json"].content.complete
    /\ fs["new.json"].content.elems # to_writer(tasks)

\* C9: read_from_file on a path that does not exist fails with the
\* does-not-exist message and leaves the collection as it was.
C9_LoadMissing ==
    [][(last'.op = "read_from_file" /\ ~fs[last'.arg].exists) =>
         /\ ~last'.ok
         /\ out' = MsgDoesNotExist
         /\ tasks' = tasks]_vars

\* A load of a missing file failed while the collection holds tasks.
C9_Witness ==
    /\ last.op = "read_from_file"
    /\ ~last.ok
    /\ ~fs[last.arg].exists
    /\ out = MsgDoesNotExist
    /\ tasks # <<>>

\* C10: load is all or nothing: on a file that exists but cannot be opened,
\* or whose document is no task sequence (also when its leading elements
\* are tasks), read_from_file reports failure; and whenever it reports
\* failure the collection is what it was before the call.
C10_LoadAllOrNothing ==
    [][last'.op = "read_from_file" =>
         /\ (/\ fs[last'.arg].exists
             /\ (~fs[last'.arg].openable \/ Malformed(fs[last'.arg].content)))
              => ~last'.ok
         /\ ~last'.ok => tasks' = tasks]_vars

\* A load failed on the document whose first element is a task and whose
\* second is not, while the collection holds something else than that first
\* task.
C10_Witness ==
    /\ last.op = "read_from_file"
    /\ ~last.ok
    /\ last.arg = "bad.json"
    /\ out = MsgReadError
    /\ tasks # <<>>
    /\ tasks # <<DeserializeTask(BadDocument[1]).task>>

\* C11: a successful load replaces the whole collection with the file's
\* task sequence: afterwards the collection has the document's length and,
\* position by position, the document's name, description, priority and
\* instant; nothing held before is kept or merged in.
C11_LoadReplaces ==
    [][(last'.op = "read_from_file" /\ last'.ok) =>
         LET doc == fs[last'.arg].content.elems
         IN  /\ fs[last'.arg].exists
             /\ Len(tasks') = Len(doc)
             /\ \A i \in 1..Len(doc) :
                  /\ tasks'[i].name = doc[i].name
                  /\ tasks'[i].description = doc[i].description
                  /\ VariantName(tasks'[i].priority) = doc[i].priority
                  /\ tasks'[i].add_time.utc = doc[i].add_time.local - doc[i].add_time.off]_vars

\* A load of the document another run saved succeeded and the collection is
\* that document's two tasks.
C11_Witness ==
    /\ last.op = "read_from_file"
    /\ last.ok
    /\ last.arg = "old.json"
    /\ out = MsgRead
    /\ Len(tasks) = 2
    /\ tasks[1].name = "a"
    /\ tasks[2].priority = Medium

\* C12: a console read that fails at any prompt of any command (the command
\* line, the name or file name, or one of the three prompts that build a
\* task for add and edit) is printed as a message and ends only the current
\* command: the collection is unchanged and the loop reads the next command.
C12_ReadFailureEndsCommandOnly ==
    [][(last'.op = "none" /\ ~last'.ok) =>
         /\ out' = MsgInputError
         /\ tasks' = tasks
         /\ pc' = "running"]_vars

\* C13: no error is fatal: whatever the command and whatever the outcome of
\* the operation it reaches, the process does not end and the loop goes on to
\* the next command.
C13_NeverEnds == pc = "running"

\* The command codes that reach the default arm.
UnknownCodes == {Trim(line) : line \in UnknownCommandLines}

\* C14: the find, print and save commands (save whether it succeeds or fails)
\* and every unrecognized command leave the collection as it was: same
\* tasks, same order, same fields.
C14_ReadOnlyCommands ==
    [][last'.cmd \in ({"2", "5", "6"} \cup UnknownCodes) => tasks' = tasks]_vars

\* A save failed in the middle of its write while the collection holds
\* tasks.
C14_Witness ==
    /\ last.cmd = "6"
    /\ last.op = "store_to_file"
    /\ ~last.ok
    /\ out = MsgSaveError
    /\ Len(tasks) = 2

\* The messages that say the file is already there.
IsAlreadyExistsError(msg) == msg \in {MsgAlreadyExists, MsgCreateFailed}

\* C15: store_to_file on a path that does not exist either writes the whole
\* task sequence to it and reports success, or reports a failure that is not
\* the already-exists error; that error is only for a path that existed
\* before the call.
C15_SaveToNewPath ==
    [][(last'.op = "store_to_file" /\ ~fs[last'.arg].exists) =>
         \/ /\ last'.ok
            /\ fs'[last'.arg].exists
            /\ fs'[last'.arg].content = [complete |-> TRUE, elems |-> to_writer(tasks)]
         \/ /\ ~last'.ok
            /\ ~IsAlreadyExistsError(out')]_vars

\* The priority each line typed at the priority prompt stands for.
ExpectedPriority(line) ==
    CASE line = "low\n" -> Low
      [] line = "Medium\n" -> Medium
      [] line = "HIGH\n" -> High
      [] OTHER -> Low

\* The lines that are a casing of low, medium or high.
PriorityWords == {"low\n", "Medium\n", "HIGH\n"}

\* C16: the priority string typed is mapped without regard to case: a casing
\* of low, medium or high gives Low, Medium or High, every other string (the
\* empty one too) gives Low with the warning; and the add command appends
\* the task with the priority so mapped.
C16_PriorityMapping ==
    /\ \A line \in PriorityLines :
         /\ ParsePriorityInput(input(line).line) = ExpectedPriority(line)
         /\ PriorityInputValid(input(line).line) <=> line \in PriorityWords
    /\ last.op = "add_task" =>
         /\ tasks # <<>>
         /\ tasks[Len(tasks)] = last.task
         /\ \E reads \in RegistryForms :
              /\ "ioerror" \notin {reads[1], reads[2], reads[3]}
              /\ last.task.name = Trim(reads[1])
              /\ last.task.description = Trim(reads[2])
              /\ last.task.priority = ExpectedPriority(reads[3])
              /\ (out = MsgWarnPriority) <=> reads[3] \notin PriorityWords

\* An add with an unrecognized priority string put a Low task after a High
\* one.
C16_Witness ==
    /\ last.op = "add_task"
    /\ out = MsgWarnPriority
    /\ Len(tasks) = 2
    /\ tasks[1].priority = High
    /\ tasks[2] = last.task
    /\ tasks[2].priority = Low

\* C17 as stated: once store_to_file has succeeded on a path, then after any
\* further commands a read_from_file of that path succeeds and sets the
\* collection to what it was at the save.
C17_SnapshotLoadSucceeds ==
    [][(last'.op = "read_from_file" /\ saved[last'.arg].set) =>
         /\ last'.ok
         /\ tasks' = saved[last'.arg].tasks]_vars

\* C17 as amended: once store_to_file has succeeded on a path, then after any
\* further commands a read_from_file of that path either succeeds and sets
\* the collection to what it was at the save, or fails on opening or reading
\* the file and leaves the collection as it is; it never loads anything but
\* the snapshot.
C17_SnapshotKept ==
    [][(last'.op = "read_from_file" /\ saved[last'.arg].set) =>
         \/ /\ last'.ok
            /\ tasks' = saved[last'.arg].tasks
         \/ /\ ~last'.ok
            /\ out' \in {MsgReadError, MsgOpenFailed}
            /\ tasks' = tasks]_vars

\* A load brought back the two tasks a save of this run wrote.
C17_Witness ==
    /\ last.op = "read_from_file"
    /\ last.ok
    /\ saved[last.arg].set
    /\ Len(tasks) = 2
    /\ tasks = saved[last.arg].tasks

\* C18: a save that reports failure leaves the files as they were: after
\* store_to_file a file is at the path only if it was there before or the
\* call reported success.
C18_FailedSaveLeavesNoFile ==
    [][last'.op = "store_to_file" =>
         (fs'[last'.arg].exists => (fs[last'.arg].exists \/ last'.ok))]_vars

====
